---- MODULE Spec2Model ----
(***************************************************************************)
(* TouchHarp: a capacitive touch pin with a ring-buffer running average    *)
(* (TouchPin) and the pluck state machine built on it (HarpString).        *)
(*                                                                         *)
(* The model follows src/TouchPin.{h,cpp} and src/HarpString.{h,cpp}.      *)
(* External collaborators are the environment:                             *)
(*   millis()     the variable clock, advanced by Tick and, inside one     *)
(*                update, between two successive millis() calls;           *)
(*   touchRead()  a value drawn from a finite set of raw readings;         *)
(*   usbMIDI      the variable usbMIDI, the last messages handed over.     *)
(* The type `boolean` comes from Arduino.h, which is not part of the       *)
(* repository: cores define it either as uint8_t or as bool.  The member   *)
(* `boolean _state` therefore stores a state number unchanged in one build *)
(* and converts it to true (1) in the other; boolean_is_bool is fixed at   *)
(* start and never changes.                                                *)
(***************************************************************************)
EXTENDS Integers, Sequences, FiniteSets, TLC

\* ---------------------------------------------------------------- constants
SAMPLE_BUFFER_SIZE == 10
DEFAULT_TOUCH_THRESHOLD == 5000
SEL0 == 2
SEL1 == 3
SEL2 == 4
SEL3 == 5
DEFAULT_STRING_VIBRATION_DURATION == 2000
STATE_IDLE == 1
STATE_ARMED == 2
STATE_SOUNDING == 3
\* unsigned long and unsigned int have the same width on the ARM Teensy
\* boards that provide touchRead() (32 bits); byte has 8 bits.  TLC's
\* integers end at 2^31 - 1, so the model's words are 30 bits wide: every
\* value the program constants and the readings produce fits, and sums of
\* two words do not leave TLC's range.
ULONG_MODULUS == 2^30
UINT_MODULUS == 2^30
BYTE_MODULUS == 2^8

\* ------------------------------------------------------------------- bounds
\* The clock values explored are k * DEFAULT_STRING_VIBRATION_DURATION + j
\* with k <= MaxCoarse and j <= a bound on the single milliseconds: MaxFine
\* for the string with all its operations, MaxSensorFine for the sensor on
\* its own, which needs more than ten samples to fill and turn over its
\* buffer.
MaxFine == 3
MaxSensorFine == 12
MaxCoarse == 1
\* The single milliseconds explored around each quarter of the clock's range
\* where the clock runs on for ever.
MaxLiveFine == 1
\* The milliseconds explored for one pluck: twelve samples, two
\* milliseconds apart at the longer sample period.
MaxPluckFine == 25
\* The single milliseconds explored after each quarter of the clock's
\* range by the sensor on its own; the last millisecond before it is
\* explored too.
MaxWrapFine == 1
\* The single milliseconds explored for a sensor on a shared multiplexer.
MaxMuxFine == 2

TickSteps == {1, DEFAULT_STRING_VIBRATION_DURATION}
\* Advance of the clock between two millis() calls of one update.
ClockDrift == {0, 1}
\* Raw readings touchRead() returns to a string: one high reading lifts the
\* average of ten above the default threshold.
Raw == {0, 60000}
\* Raw readings of the sensor on its own: their sums are not multiples of
\* the buffer size, so the average truncates.
SensorRaw == {3, 6000}
SamplePeriods == {0, 1}
\* The second threshold lies between the averages after one and after two
\* high readings.
Thresholds == {DEFAULT_TOUCH_THRESHOLD, 11000}
Durations == {0, DEFAULT_STRING_VIBRATION_DURATION}
\* Where the clock runs on for ever: it advances by a millisecond or by a
\* quarter of its range, the finger stays on the string, the threshold is
\* the default or one no average exceeds, and the vibration time is the
\* default, half the clock's range or the largest unsigned long.
LiveSteps == {1, ULONG_MODULUS \div 4}
LiveRaw == {60000}
LiveThresholds == {DEFAULT_TOUCH_THRESHOLD, 65535}
LiveDurations ==
    {DEFAULT_STRING_VIBRATION_DURATION, ULONG_MODULUS \div 2, ULONG_MODULUS - 1}
MidiNotes == {0, 60}
\* The clock advances by a millisecond or to the last millisecond before
\* the next quarter of its range.
WrapSteps == {1, ULONG_MODULUS \div 4 - 1}
\* The inputs of the multiplexer, and what a sensor on it reads.
Channels == 0 .. 15
MuxRaw == {3}

VARIABLES
    boolean_is_bool,    \* build: TRUE iff `boolean` is bool
    clock,              \* what millis() returns
    pins,               \* level of the digital outputs SEL0 .. SEL3
    _sample_period,
    _last_sample_time,
    _samples,
    _index,
    _sum,
    _touch_threshold,
    _select_line,
    _state,
    _on_time,
    _midi_note,
    _duration,
    usbMIDI,            \* the last two messages sent, oldest first
    readings,           \* what touchRead() returned, the last ten, oldest first
    was_touching,       \* touching() as evaluated by the previous HarpString::update
    at_note_on,         \* _duration as it was at the note_on() of the note not yet ended
    call                \* the call just made, NoCall after any other step

sensorVars == <<_sample_period, _last_sample_time, _samples, _index, _sum,
                _touch_threshold, _select_line>>
stringVars == <<_state, _on_time, _midi_note, _duration>>
vars == <<boolean_is_bool, clock, pins, sensorVars, stringVars, usbMIDI,
          readings, was_touching, at_note_on, call>>

NoCall == [op |-> "none"]
NoNote == [sounding |-> FALSE]

\* ------------------------------------------------------------ TouchPin
\* Bit k of n: (n >> k) & 0x01
Bit(n, k) == (n \div 2^k) % 2

\* A sample taken already when the period has just been reached.
SampleDue_at_period(now) ==
    now >= (_last_sample_time + _sample_period) % ULONG_MODULUS

\* TouchPin.cpp:26, the test that a sample is due at millis() = now
SampleDue(now) == now > (_last_sample_time + _sample_period) % ULONG_MODULUS

\* The multiplexer input chosen only for a positive _select_line, as the
\* comment of TouchPin.h:31 has it.
Select_if_positive(line) ==
    IF line > 0
    THEN [p \in {SEL0, SEL1, SEL2, SEL3} |->
            CASE p = SEL0 -> Bit(line, 0)
              [] p = SEL1 -> Bit(line, 1)
              [] p = SEL2 -> Bit(line, 2)
              [] p = SEL3 -> Bit(line, 3)]
    ELSE pins

\* TouchPin.cpp:27-33, the select lines after the multiplexer input is chosen
Select(line) ==
    IF line >= 0
    THEN [p \in {SEL0, SEL1, SEL2, SEL3} |->
            CASE p = SEL0 -> Bit(line, 0)
              [] p = SEL1 -> Bit(line, 1)
              [] p = SEL2 -> Bit(line, 2)
              [] p = SEL3 -> Bit(line, 3)]
    ELSE pins

\* The running sum with the overwritten sample left in.
NewSum_no_eviction(val) == (_sum + val) % ULONG_MODULUS

\* TouchPin.cpp:39-41, the running sum after val replaces _samples[_index]
NewSum(val) ==
    (((_sum - _samples[_index]) % ULONG_MODULUS) + val) % ULONG_MODULUS

\* TouchPin.cpp:42
NextIndex(i) == (i + 1) % SAMPLE_BUFFER_SIZE

\* The average rounded to the nearest integer instead of truncated.
value_rounded(sum) ==
    ((sum + SAMPLE_BUFFER_SIZE \div 2) \div SAMPLE_BUFFER_SIZE) % UINT_MODULUS

\* TouchPin::value() for a running sum
value(sum) == (sum \div SAMPLE_BUFFER_SIZE) % UINT_MODULUS

\* TouchPin::touching() for a running sum and a threshold
touching(sum, threshold) == value(sum) > threshold

\* The log of touchRead() after one more reading.
Logged(val) ==
    IF Len(readings) < SAMPLE_BUFFER_SIZE
    THEN Append(readings, val)
    ELSE Append(Tail(readings), val)

\* TouchPin::update(): now is millis() at line 26, stamp is millis() at
\* line 35, val is what touchRead() returns at line 37.
TouchPin_update(now, stamp, val) ==
    IF SampleDue(now)
    THEN /\ pins' = Select(_select_line)
         /\ _last_sample_time' = stamp
         /\ readings' = Logged(val)
         /\ _sum' = NewSum(val)
         /\ _samples' = [_samples EXCEPT ![_index] = val]
         /\ _index' = NextIndex(_index)
         /\ UNCHANGED <<_sample_period, _touch_threshold, _select_line>>
    ELSE UNCHANGED <<pins, readings, sensorVars>>

\* TouchPin::set_touch_threshold
set_touch_threshold(t) ==
    /\ _touch_threshold' = t % UINT_MODULUS
    /\ UNCHANGED <<_sample_period, _last_sample_time, _samples, _index, _sum,
                   _select_line>>
    /\ UNCHANGED <<boolean_is_bool, clock, pins, stringVars, usbMIDI,
                   readings, was_touching, at_note_on>>
    /\ call' = NoCall

\* ---------------------------------------------------------- HarpString
\* The state kept in a field of one bit.
StoreState_one_bit(v) == v % 2

\* What the member `boolean _state` holds after `_state = v`.
StoreState(v) ==
    IF boolean_is_bool THEN (IF v = 0 THEN 0 ELSE 1) ELSE v % BYTE_MODULUS

\* usbMIDI after one more message; only the last two are kept.
Send(out, msg) ==
    IF Len(out) < 2 THEN Append(out, msg) ELSE <<out[2], msg>>

\* HarpString::note_on / note_off
note_on(out) == Send(out, [kind |-> "on", note |-> _midi_note])
note_off(out) == Send(out, [kind |-> "off", note |-> _midi_note])

\* usbMIDI after the calls of note_on / note_off named by events, in order.
RECURSIVE Emit(_, _)
Emit(out, events) ==
    IF events = <<>> THEN out
    ELSE Emit(IF Head(events) = "on" THEN note_on(out) ELSE note_off(out),
              Tail(events))

\* The sustain time counted as over when it has just been reached.
SustainOver_at_duration(now) ==
    (now - _on_time) % ULONG_MODULUS >= _duration

\* The sustain time tested against a deadline, as TouchPin.cpp:26 tests
\* the sample period.
SustainOver_by_deadline(now) == now > (_on_time + _duration) % ULONG_MODULUS

\* The sustain time tested against _duration as it was at note_on().
SustainOver_snapshot(now) ==
    (now - _on_time) % ULONG_MODULUS
        > (IF at_note_on.sounding THEN at_note_on.duration ELSE _duration)

\* HarpString.cpp:25
SustainOver(now) == (now - _on_time) % ULONG_MODULUS > _duration

\* The switch evaluated before the sensor is sampled.
SumSeen_before_sampling(before, after) == before

\* The running sum touching() reads in the switch: TouchPin::update() has
\* run before (HarpString.cpp:5), so it is the sum after this call's sample.
SumSeen(before, after) == after

\* One case of the switch: what it does to _state (assign/next), what it
\* sends, in order (events), what it does to _on_time (time) and whether it
\* prints.
Stay == [assign |-> FALSE, next |-> 0, events |-> <<>>, time |-> "keep",
         oops |-> FALSE]

\* The touch in Idle taken for a whole pluck.
case_IDLE_plucks(touched) ==
    IF touched
    THEN [Stay EXCEPT !.assign = TRUE, !.next = STATE_SOUNDING,
                      !.events = <<"on">>, !.time = "now"]
    ELSE Stay

\* HarpString.cpp:7-11
case_IDLE(touched) ==
    IF touched
    THEN [Stay EXCEPT !.assign = TRUE, !.next = STATE_ARMED]
    ELSE Stay

\* The note triggered by the touch instead of the release.
case_ARMED_on_touch(touched) ==
    IF touched
    THEN [Stay EXCEPT !.assign = TRUE, !.next = STATE_SOUNDING,
                      !.events = <<"on">>, !.time = "now"]
    ELSE Stay

\* HarpString.cpp:12-18
case_ARMED(touched) ==
    IF ~touched
    THEN [Stay EXCEPT !.assign = TRUE, !.next = STATE_SOUNDING,
                      !.events = <<"on">>, !.time = "now"]
    ELSE Stay

\* A re-touch that clears the trigger time as the timeout does.
case_SOUNDING_retouch_clears(touched, over) ==
    IF touched
    THEN [Stay EXCEPT !.assign = TRUE, !.next = STATE_ARMED,
                      !.events = <<"off">>, !.time = "zero"]
    ELSE IF over
    THEN [Stay EXCEPT !.assign = TRUE, !.next = STATE_IDLE,
                      !.events = <<"off">>, !.time = "zero"]
    ELSE Stay

\* A timeout that silences the note again on every later update: the state
\* is left at Sounding.
case_SOUNDING_off_repeats(touched, over) ==
    IF touched
    THEN [Stay EXCEPT !.assign = TRUE, !.next = STATE_ARMED,
                      !.events = <<"off">>]
    ELSE IF over
    THEN [Stay EXCEPT !.events = <<"off">>, !.time = "zero"]
    ELSE Stay

\* A timeout that leaves the trigger time in _on_time.
case_SOUNDING_timeout_keeps(touched, over) ==
    IF touched
    THEN [Stay EXCEPT !.assign = TRUE, !.next = STATE_ARMED,
                      !.events = <<"off">>]
    ELSE IF over
    THEN [Stay EXCEPT !.assign = TRUE, !.next = STATE_IDLE,
                      !.events = <<"off">>]
    ELSE Stay

\* The sustain time tested before the re-touch.
case_SOUNDING_timeout_first(touched, over) ==
    IF over
    THEN [Stay EXCEPT !.assign = TRUE, !.next = STATE_IDLE,
                      !.events = <<"off">>, !.time = "zero"]
    ELSE IF touched
    THEN [Stay EXCEPT !.assign = TRUE, !.next = STATE_ARMED,
                      !.events = <<"off">>]
    ELSE Stay

\* HarpString.cpp:19-30: over is the test of line 25, made only when the
\* sensor is not touched.
case_SOUNDING(touched, over) ==
    IF touched
    THEN [Stay EXCEPT !.assign = TRUE, !.next = STATE_ARMED,
                      !.events = <<"off">>]
    ELSE IF over
    THEN [Stay EXCEPT !.assign = TRUE, !.next = STATE_IDLE,
                      !.events = <<"off">>, !.time = "zero"]
    ELSE Stay

\* A default case that puts the string back to Idle.
case_default_recovers ==
    [Stay EXCEPT !.oops = TRUE, !.assign = TRUE, !.next = STATE_IDLE,
                 !.time = "zero"]

\* HarpString.cpp:31-32
case_default == [Stay EXCEPT !.oops = TRUE]

\* HarpString::update().  val is the reading touchRead() would return,
\* d1 the clock's advance between the millis() calls of TouchPin.cpp:26
\* and :35, d2 its advance up to the millis() call of HarpString.cpp:16
\* or :25.
HarpString_update(val, d1, d2) ==
    LET now == clock
        due == SampleDue(now)
        stamp == IF due THEN now + d1 ELSE now
        touched == touching(SumSeen(_sum, IF due THEN NewSum(val) ELSE _sum),
                            _touch_threshold)
        readsClock == \/ _state = STATE_ARMED /\ ~touched
                      \/ _state = STATE_SOUNDING /\ ~touched
        later == IF readsClock THEN stamp + d2 ELSE stamp
        do == CASE _state = STATE_IDLE -> case_IDLE(touched)
                [] _state = STATE_ARMED -> case_ARMED(touched)
                [] _state = STATE_SOUNDING ->
                       case_SOUNDING(touched, SustainOver(later))
                [] OTHER -> case_default
    IN
    /\ TouchPin_update(now, stamp, val)
    /\ clock' = later
    /\ _state' = IF do.assign THEN StoreState(do.next) ELSE _state
    /\ _on_time' = CASE do.time = "now" -> later
                     [] do.time = "zero" -> 0
                     [] OTHER -> _on_time
    /\ usbMIDI' = Emit(usbMIDI, do.events)
    /\ was_touching' = touched
    /\ at_note_on' =
           CASE do.events # <<>> /\ do.events[Len(do.events)] = "on" ->
                    [sounding |-> TRUE, duration |-> _duration]
             [] do.events # <<>> /\ do.events[Len(do.events)] = "off" -> NoNote
             [] OTHER -> at_note_on
    /\ call' = [op |-> "update", state0 |-> _state, on_time0 |-> _on_time,
                sampled |-> due, evicted |-> _samples[_index],
                touched |-> touched, touched0 |-> was_touching,
                sent |-> do.events, oops |-> do.oops, note0 |-> at_note_on]
    /\ UNCHANGED <<boolean_is_bool, _midi_note, _duration>>

\* HarpString::set_midi_note
set_midi_note(n) ==
    /\ _midi_note' = n % BYTE_MODULUS
    /\ UNCHANGED <<_state, _on_time, _duration>>
    /\ UNCHANGED <<boolean_is_bool, clock, pins, sensorVars, usbMIDI,
                   readings, was_touching, at_note_on>>
    /\ call' = NoCall

\* HarpString::set_duration
set_duration(d) ==
    /\ _duration' = d % ULONG_MODULUS
    /\ UNCHANGED <<_state, _on_time, _midi_note>>
    /\ UNCHANGED <<boolean_is_bool, clock, pins, sensorVars, usbMIDI,
                   readings, was_touching, at_note_on>>
    /\ call' = NoCall

\* ---------------------------------------------------------- environment
\* Time passes between two calls.
Tick(d) ==
    /\ clock' = clock + d
    /\ UNCHANGED <<boolean_is_bool, pins, sensorVars, stringVars, usbMIDI,
                   readings, was_touching, at_note_on>>
    /\ call' = NoCall

\* Clock values inside the explored window.
InWindow(t, fine) ==
    /\ t % DEFAULT_STRING_VIBRATION_DURATION <= fine
    /\ t \div DEFAULT_STRING_VIBRATION_DURATION <= MaxCoarse

\* The clock advances inside update() only where millis() is called again:
\* HarpString.cpp:16 and :25.
ReadsClockAgain(val) ==
    LET touched == touching(IF SampleDue(clock) THEN NewSum(val) ELSE _sum,
                            _touch_threshold)
    IN  _state \in {STATE_ARMED, STATE_SOUNDING} /\ ~touched

\* ------------------------------------------------------- specification
\* The state after HarpString(pin, sample_period): the TouchPin constructor
\* and the member initialisers of HarpString.h.  The strings are objects of
\* static lifetime, so the sample buffer, which no constructor writes, is
\* zero-filled.
\* Before the first call: the clock starts at 0, the outputs are low,
\* nothing has been read or sent.
Boot ==
    /\ clock = 0
    /\ pins = [p \in {SEL0, SEL1, SEL2, SEL3} |-> 0]
    /\ usbMIDI = <<>>
    /\ readings = <<>>
    /\ was_touching = FALSE
    /\ at_note_on = NoNote
    /\ call = NoCall

\* `int _select_line = select_line` for an unsigned int select_line
\* (TouchPin.cpp:20)
ToInt(u) == IF u >= UINT_MODULUS \div 2 THEN u - UINT_MODULUS ELSE u

\* TouchPin::TouchPin(pin, sample_period), where line is -1, and
\* TouchPin::TouchPin(pin, sample_period, select_line), where line is the
\* int that select_line converts to.
TouchPin_TouchPin(line) ==
    /\ _sample_period \in SamplePeriods
    /\ _last_sample_time = 0
    /\ _samples = [i \in 0 .. SAMPLE_BUFFER_SIZE - 1 |-> 0]
    /\ _index = 0
    /\ _sum = 0
    /\ _select_line = line
    /\ _touch_threshold = DEFAULT_TOUCH_THRESHOLD

Constructed ==
    /\ Boot
    /\ TouchPin_TouchPin(-1)
    /\ _on_time = 0
    /\ _midi_note = 0
    /\ _duration = DEFAULT_STRING_VIBRATION_DURATION

Init ==
    /\ boolean_is_bool \in BOOLEAN
    /\ _state = StoreState(STATE_IDLE)
    /\ Constructed

\* A string in use: update() is called again and again, time passes, and
\* the string is reconfigured at any moment.
Update ==
    \E val \in Raw, d1, d2 \in ClockDrift :
        /\ SampleDue(clock) \/ (d1 = 0 /\ val = 0)
        /\ ReadsClockAgain(val) \/ d2 = 0
        /\ InWindow(clock + d1 + d2, MaxFine)
        /\ HarpString_update(val, d1, d2)

SetThreshold == \E t \in Thresholds : set_touch_threshold(t)

SetNote == \E n \in MidiNotes : set_midi_note(n)

SetDuration == \E d \in Durations : set_duration(d)

Advance == \E d \in TickSteps : Tick(d) /\ InWindow(clock', MaxFine)

Next ==
    \/ Update
    \/ SetThreshold
    \/ SetNote
    \/ SetDuration
    \/ Advance

Spec == Init /\ [][Next]_vars

\* ------------------------------------- the state field overwritten
\* No operation of HarpString stores anything but STATE_IDLE, STATE_ARMED
\* or STATE_SOUNDING in _state, so the default case of the switch is met
\* only on an object whose memory was overwritten from outside the class.
\* Here update() and the other operations are applied to such an object:
\* _state holds a value that names no state (false where boolean is bool)
\* and _on_time holds any value.
StrayStates ==
    IF boolean_is_bool THEN {0} ELSE {0, STATE_SOUNDING + 1, BYTE_MODULUS - 1}

StrayTimes == {0, 1}

FaultInit ==
    /\ boolean_is_bool \in BOOLEAN
    /\ _state \in StrayStates
    /\ Boot
    /\ TouchPin_TouchPin(-1)
    /\ _on_time \in StrayTimes
    /\ _midi_note = 0
    /\ _duration = DEFAULT_STRING_VIBRATION_DURATION

FaultSpec == FaultInit /\ [][Next]_vars

\* ------------------------------------------------- the sensor on its own
\* A call of TouchPin::update() on a TouchPin: d1 is the clock's advance
\* between the two millis() calls when a sample is taken.
TouchPin_call(val, d1) ==
    /\ TouchPin_update(clock, clock + d1, val)
    /\ clock' = IF SampleDue(clock) THEN clock + d1 ELSE clock
    /\ call' = [op |-> "sense", sampled |-> SampleDue(clock),
                evicted |-> _samples[_index], pins0 |-> pins]
    /\ UNCHANGED <<boolean_is_bool, stringVars, usbMIDI, was_touching,
                   at_note_on>>

Sense ==
    \E val \in SensorRaw, d1 \in ClockDrift :
        /\ SampleDue(clock) \/ (d1 = 0 /\ val = 3)
        /\ InWindow(clock + d1, MaxSensorFine)
        /\ TouchPin_call(val, d1)

SensorAdvance == Tick(1) /\ InWindow(clock', MaxSensorFine)

SensorInit ==
    /\ boolean_is_bool = FALSE
    /\ _state = STATE_IDLE
    /\ Constructed

SensorNext ==
    \/ Sense
    \/ SetThreshold
    \/ SensorAdvance

SensorSpec == SensorInit /\ [][SensorNext]_vars

\* ------------------------------------ several sensors, one multiplexer
\* loop() calls update() of one TouchPin after the other; the calls do not
\* overlap.  One TouchPin is followed; it was built by either constructor.
\* update() of any other TouchPin on the multiplexer, when a sample is due
\* for it, writes the select lines for its own input (TouchPin.cpp:27-33)
\* and shares nothing else with the TouchPin followed.
OtherUpdate ==
    /\ \E line \in Channels : pins' = Select(line)
    /\ UNCHANGED <<boolean_is_bool, clock, sensorVars, stringVars, usbMIDI,
                   readings, was_touching, at_note_on>>
    /\ call' = NoCall

MuxSense ==
    \E val \in MuxRaw :
        /\ InWindow(clock, MaxMuxFine)
        /\ TouchPin_call(val, 0)

MuxAdvance == Tick(1) /\ InWindow(clock', MaxMuxFine)

MuxInit ==
    /\ boolean_is_bool = FALSE
    /\ _state = STATE_IDLE
    /\ Boot
    /\ \E line \in {-1} \cup {ToInt(c) : c \in Channels} :
           TouchPin_TouchPin(line)
    /\ _on_time = 0
    /\ _midi_note = 0
    /\ _duration = DEFAULT_STRING_VIBRATION_DURATION

MuxNext ==
    \/ MuxSense
    \/ OtherUpdate
    \/ MuxAdvance

MuxSpec == MuxInit /\ [][MuxNext]_vars

\* ------------------------------------------------------ one pluck
\* The finger is on the string for the first reading or the first two and
\* off for every later one.
PluckReadings ==
    IF readings = <<>> THEN {60000}
    ELSE IF Len(readings) < 2 /\ readings[Len(readings)] = 60000 THEN Raw
    ELSE {0}

PluckUpdate ==
    \E val \in PluckReadings :
        /\ InWindow(clock, MaxPluckFine)
        /\ HarpString_update(val, 0, 0)

\* loop() polls faster than the clock counts: each millisecond is seen by
\* at least one update.
PluckAdvance ==
    /\ call.op = "update"
    /\ Tick(1)
    /\ InWindow(clock', MaxPluckFine)

PluckNext ==
    \/ PluckUpdate
    \/ PluckAdvance

PluckSpec == Init /\ [][PluckNext]_vars

\* ------------------------------- the sensor while the clock wraps around
\* millis() counts up to the largest unsigned long and starts again at 0.
WrapTick(d) ==
    /\ (clock + d + 1) % (ULONG_MODULUS \div 4) <= MaxWrapFine + 1
    /\ clock' = (clock + d) % ULONG_MODULUS
    /\ UNCHANGED <<boolean_is_bool, pins, sensorVars, stringVars, usbMIDI,
                   readings, was_touching, at_note_on>>
    /\ call' = NoCall

WrapSense == \E val \in MuxRaw : TouchPin_call(val, 0)

WrapAdvance == \E d \in WrapSteps : WrapTick(d)

WrapNext ==
    \/ WrapSense
    \/ WrapAdvance

WrapSpec == SensorInit /\ [][WrapNext]_vars

\* ------------------------------------------- the loop running for ever
\* millis() counts on and wraps around at the end of its range.  The loop
\* polls faster than the clock steps explored: the clock is seen to advance
\* only after an update.
LiveTick(d) ==
    /\ call.op = "update"
    /\ (clock + d) % (ULONG_MODULUS \div 4) <= MaxLiveFine
    /\ clock' = (clock + d) % ULONG_MODULUS
    /\ UNCHANGED <<boolean_is_bool, pins, sensorVars, stringVars, usbMIDI,
                   readings, was_touching, at_note_on>>
    /\ call' = NoCall

LiveUpdate == \E val \in LiveRaw : HarpString_update(val, 0, 0)

LiveAdvance == \E d \in LiveSteps : LiveTick(d)

LiveSetThreshold == \E t \in LiveThresholds : set_touch_threshold(t)

LiveSetDuration == \E d \in LiveDurations : set_duration(d)

LiveNext ==
    \/ LiveUpdate
    \/ LiveAdvance
    \/ LiveSetThreshold
    \/ LiveSetDuration

\* loop() never stops calling update(): LiveUpdate is always enabled and
\* is taken again and again.  Time never stops: the clock's advance, which
\* the model lets be seen after an update only, is seen again and again.
LiveSpec ==
    /\ Init
    /\ [][LiveNext]_vars
    /\ WF_vars(LiveUpdate)
    /\ SF_vars(LiveAdvance)

\* ================================================================ claims
Updated == call.op = "update"
Sensed == call.op = "sense"
\* touching() on the present state: after an update, what the update's
\* switch evaluated, the sample of that call included.
TouchingNow == touching(_sum, _touch_threshold)
\* now - noteOnTime at the update just made, as the program computes it
Elapsed == (clock - call.on_time0) % ULONG_MODULUS
Kinds(out) == [i \in 1 .. Len(out) |-> out[i].kind]
RECURSIVE SeqSum(_)
SeqSum(q) == IF q = <<>> THEN 0 ELSE Head(q) + SeqSum(Tail(q))
RECURSIVE SumUpTo(_, _)
SumUpTo(f, n) == IF n = 0 THEN 0 ELSE f[n - 1] + SumUpTo(f, n - 1)

\* C1: an update sends note-on if and only if it started in Armed and
\* touching() was false when it evaluated the switch; it then sends exactly
\* one note-on, ends in Sounding and has stored the current time in
\* _on_time.  An update that starts in Idle or Sounding sends no note-on.
C1_PluckOnRelease ==
    Updated =>
        /\ (\E i \in 1 .. Len(call.sent) : call.sent[i] = "on")
               <=> (call.state0 = STATE_ARMED /\ ~TouchingNow)
        /\ (call.state0 = STATE_ARMED /\ ~TouchingNow) =>
               /\ call.sent = <<"on">>
               /\ usbMIDI # <<>> /\ usbMIDI[Len(usbMIDI)].kind = "on"
               /\ _state = STATE_SOUNDING
               /\ _on_time = clock

C1_Witness ==
    /\ Updated /\ call.state0 = STATE_ARMED /\ ~TouchingNow
    /\ call.sent = <<"on">> /\ _state = STATE_SOUNDING
    /\ _on_time = clock /\ clock > 0

\* C2: an update goes from Sounding to Idle if and only if it started in
\* Sounding, the sensor is not touched and now - _on_time > _duration; it
\* then sends exactly one note-off and resets _on_time to 0.  With
\* now - _on_time = _duration the string stays Sounding and sends nothing.
C2_SustainTimeout ==
    (Updated /\ call.state0 = STATE_SOUNDING) =>
        /\ (_state = STATE_IDLE) <=> (~TouchingNow /\ Elapsed > _duration)
        /\ _state = STATE_IDLE => (call.sent = <<"off">> /\ _on_time = 0)
        /\ (~TouchingNow /\ Elapsed = _duration) =>
               /\ _state = STATE_SOUNDING
               /\ call.sent = <<>>
               /\ _on_time = call.on_time0

C2_Witness ==
    /\ Updated /\ call.state0 = STATE_SOUNDING /\ _state = STATE_IDLE
    /\ _duration = DEFAULT_STRING_VIBRATION_DURATION
    /\ Elapsed = _duration + 1
    /\ call.sent = <<"off">> /\ _on_time = 0

\* C3: an update that starts in Sounding with the sensor touched sends
\* exactly one note-off, ends in Armed and leaves _on_time as it was; no
\* note-on is sent by any update but one that starts in Armed and finds the
\* sensor not touched (an update in Armed that finds it touched sends
\* nothing and keeps _on_time), and that update overwrites _on_time with
\* the current time.
C3_Retouch ==
    Updated =>
        /\ (call.state0 = STATE_SOUNDING /\ TouchingNow) =>
               /\ call.sent = <<"off">>
               /\ _state = STATE_ARMED
               /\ _on_time = call.on_time0
        /\ (call.state0 = STATE_ARMED /\ TouchingNow) =>
               /\ call.sent = <<>>
               /\ _state = STATE_ARMED
               /\ _on_time = call.on_time0
        /\ (call.sent # <<>> /\ call.sent[Len(call.sent)] = "on") =>
               /\ call.state0 = STATE_ARMED
               /\ ~TouchingNow
               /\ _on_time = clock

C3_Witness ==
    /\ Updated /\ call.state0 = STATE_SOUNDING /\ TouchingNow
    /\ call.sent = <<"off">> /\ _state = STATE_ARMED
    /\ call.on_time0 > 0 /\ _on_time = call.on_time0 /\ clock > _on_time

\* C4: the messages sent alternate note-on, note-off, note-on, ..., the
\* first being a note-on, and the string is Sounding exactly when the last
\* message sent is a note-on.
C4_Alternation ==
    /\ Len(usbMIDI) = 1 => usbMIDI[1].kind = "on"
    /\ Len(usbMIDI) = 2 => usbMIDI[1].kind # usbMIDI[2].kind
    /\ (_state = STATE_SOUNDING)
           <=> (usbMIDI # <<>> /\ usbMIDI[Len(usbMIDI)].kind = "on")

C4_Witness ==
    /\ Kinds(usbMIDI) = <<"off", "on">>
    /\ _state = STATE_SOUNDING

\* C5: _sum is the exact sum of the ten entries of _samples, and _index is
\* in 0 .. 9.
C5_RunningSum ==
    /\ _sum = SumUpTo(_samples, SAMPLE_BUFFER_SIZE)
    /\ _index \in 0 .. SAMPLE_BUFFER_SIZE - 1

C5_Witness ==
    /\ Sensed /\ call.sampled /\ call.evicted # 0
    /\ _sum = SumUpTo(_samples, SAMPLE_BUFFER_SIZE) /\ _sum > 0

\* C6: value() is the truncated quotient by ten of the sum of the last ten
\* readings taken (fewer than ten: the missing ones count 0), touching() is
\* value() > _touch_threshold, and after ten readings of one value r,
\* value() = r.
C6_Average ==
    /\ value(_sum) = SeqSum(readings) \div SAMPLE_BUFFER_SIZE
    /\ TouchingNow <=>
           (SeqSum(readings) \div SAMPLE_BUFFER_SIZE > _touch_threshold)
    /\ \A r \in SensorRaw :
           readings = [i \in 1 .. SAMPLE_BUFFER_SIZE |-> r] => value(_sum) = r

C6_Witness ==
    /\ readings = [i \in 1 .. SAMPLE_BUFFER_SIZE |-> 6000]
    /\ _touch_threshold = 5000
    /\ value(_sum) = 6000
    /\ TouchingNow

\* C7: a call of TouchPin::update() at a time that is not greater than
\* _last_sample_time + _sample_period (as the program computes the sum)
\* takes no reading and changes nothing of the sensor.
C7_NoOpWithinPeriod ==
    [][(call'.op = "sense"
         /\ ~(clock > (_last_sample_time + _sample_period) % ULONG_MODULUS))
       => (/\ UNCHANGED <<sensorVars, readings, pins, clock>>
           /\ ~call'.sampled
           /\ value(_sum') = value(_sum)
           /\ touching(_sum', _touch_threshold')
                  = touching(_sum, _touch_threshold))]_vars

C7_Witness ==
    /\ Sensed /\ ~call.sampled
    /\ clock = _last_sample_time + _sample_period
    /\ readings # <<>>

\* C8: an update goes from Idle to Armed if and only if it started in Idle
\* and touching() was true when it evaluated the switch; touching() was
\* then false at the update before; an update that starts in Armed and
\* finds the sensor still touched changes no state and sends nothing.
C8_IdleToArmed ==
    Updated =>
        /\ (call.state0 = STATE_IDLE /\ _state = STATE_ARMED)
               <=> (call.state0 = STATE_IDLE /\ TouchingNow)
        /\ (call.state0 = STATE_IDLE /\ TouchingNow) => ~call.touched0
        /\ (call.state0 = STATE_ARMED /\ TouchingNow) =>
               (_state = STATE_ARMED /\ call.sent = <<>>)

\* C9: the switch of an update acts on touching() as it is after the
\* sensor's sampling step of the same call.
C9_SampleBeforeSwitch ==
    Updated =>
        /\ call.touched = TouchingNow
        /\ call.state0 = STATE_IDLE =>
               _state = (IF TouchingNow THEN StoreState(STATE_ARMED)
                                        ELSE STATE_IDLE)
        /\ call.state0 = STATE_ARMED =>
               ((call.sent = <<"on">>) <=> ~TouchingNow)
        /\ call.state0 = STATE_SOUNDING =>
               ((_state = STATE_ARMED) <=> TouchingNow)

\* The running sum before the sample of the call just made.
SumBefore ==
    _sum - _samples[(_index + SAMPLE_BUFFER_SIZE - 1) % SAMPLE_BUFFER_SIZE]
         + call.evicted

C9_Witness ==
    /\ Updated /\ call.sampled
    /\ ~touching(SumBefore, _touch_threshold) /\ TouchingNow
    /\ call.state0 = STATE_SOUNDING /\ _state = STATE_ARMED

\* The update just made left Sounding and sent one note-off.
NoteOffFromSounding ==
    /\ Updated /\ call.state0 = STATE_SOUNDING
    /\ call.sent = <<"off">> /\ _state # STATE_SOUNDING

\* C10 as stated: whatever the vibration time d, a string that is Sounding
\* with _duration = d eventually leaves Sounding and sends note-off, unless
\* _duration is changed.
C10_EveryNoteEnds ==
    \A d \in LiveDurations :
        [](( _state = STATE_SOUNDING /\ _duration = d)
              => <>(NoteOffFromSounding \/ _duration # d))

\* C10 amended: the same for every vibration time below the largest
\* unsigned long.
C10_NoteEndsBelowMax ==
    \A d \in LiveDurations \ {ULONG_MODULUS - 1} :
        [](( _state = STATE_SOUNDING /\ _duration = d)
              => <>(NoteOffFromSounding \/ _duration # d))

C10_Witness ==
    /\ NoteOffFromSounding /\ ~TouchingNow
    /\ _duration = DEFAULT_STRING_VIBRATION_DURATION
    /\ _state = STATE_IDLE

\* The values of _state the switch has a case for.
States == {STATE_IDLE, STATE_ARMED, STATE_SOUNDING}

\* C11: an update that finds in _state a value other than STATE_IDLE,
\* STATE_ARMED and STATE_SOUNDING prints the error line, sends neither
\* note-on nor note-off and leaves _state and _on_time as they were; the
\* error line is printed by no other update; updates can be made after it.
C11_DefaultCase ==
    Updated =>
        /\ call.oops <=> call.state0 \notin States
        /\ call.state0 \notin States =>
               /\ call.sent = <<>>
               /\ usbMIDI = <<>>
               /\ _state = call.state0
               /\ _on_time = call.on_time0

\* The error line is printed by an update that follows two sampling
\* updates of the same object.
C11_Witness ==
    /\ Updated /\ call.oops /\ ~call.sampled
    /\ Len(readings) >= 2
    /\ _state = BYTE_MODULUS - 1 /\ _on_time = 1

\* Bits 0-3 of c on the select lines SEL0 .. SEL3.
LinesOf(c) ==
    (SEL0 :> c % 2) @@ (SEL1 :> (c \div 2) % 2)
        @@ (SEL2 :> (c \div 4) % 2) @@ (SEL3 :> (c \div 8) % 2)

PluckDone ==
    /\ Updated /\ call.state0 = STATE_ARMED /\ _state = STATE_SOUNDING
    /\ ~TouchingNow
    /\ Kinds(usbMIDI) = <<"on">>

\* C13: from construction, with the finger on the string for the first
\* readings and off afterwards, the update at which the average has risen
\* above the threshold takes the string from Idle to Armed and sends
\* nothing, and the update at which it has fallen to or below the threshold
\* again takes it from Armed to Sounding, one note-on and no note-off
\* having been sent then.
C13_FullPluck ==
    Updated =>
        /\ (~call.touched0 /\ call.touched) =>
               /\ call.state0 = STATE_IDLE /\ _state = STATE_ARMED
               /\ usbMIDI = <<>>
        /\ (call.touched0 /\ ~call.touched) => PluckDone

\* C14: an update that starts in Sounding and finds the sensor touched
\* while now - _on_time > _duration sends exactly one note-off, ends in
\* Armed, not in Idle, and leaves _on_time as it was.
C14_RetouchWins ==
    (Updated /\ call.state0 = STATE_SOUNDING /\ TouchingNow
             /\ Elapsed > _duration) =>
        /\ call.sent = <<"off">>
        /\ usbMIDI[Len(usbMIDI)].kind = "off"
        /\ _state = STATE_ARMED
        /\ _state # STATE_IDLE
        /\ _on_time = call.on_time0

C14_Witness ==
    /\ Updated /\ call.state0 = STATE_SOUNDING /\ TouchingNow
    /\ _duration = DEFAULT_STRING_VIBRATION_DURATION
    /\ Elapsed > _duration
    /\ call.on_time0 > 0 /\ _on_time = call.on_time0
    /\ _state = STATE_ARMED

\* C15: an update that starts in Sounding and finds the sensor not touched
\* goes to Idle if and only if now - _on_time > _duration for the value
\* _duration has at this update, whatever it was at the note-on, and
\* otherwise stays Sounding and sends nothing.
C15_LiveDuration ==
    (Updated /\ call.state0 = STATE_SOUNDING /\ ~TouchingNow) =>
        /\ call.note0.sounding
        /\ \A d0 \in Durations :
               call.note0.duration = d0 =>
                   /\ (_state = STATE_IDLE) <=> (Elapsed > _duration)
                   /\ _state # STATE_IDLE =>
                          (_state = STATE_SOUNDING /\ call.sent = <<>>)

\* A note triggered with the default vibration time ends after one
\* millisecond, the vibration time having been set to 0 meanwhile.
C15_Witness ==
    /\ Updated /\ call.state0 = STATE_SOUNDING /\ ~TouchingNow
    /\ call.note0.sounding
    /\ call.note0.duration = DEFAULT_STRING_VIBRATION_DURATION
    /\ _duration = 0
    /\ Elapsed = 1
    /\ _state = STATE_IDLE /\ call.sent = <<"off">>

\* C16 as stated: _on_time is 0 in every state in which the string is Idle
\* or Armed.
C16_OnTimeZero == _state \in {STATE_IDLE, STATE_ARMED} => _on_time = 0

\* C16 amended: _on_time is 0 whenever the string is Idle; when it is Armed,
\* _on_time is 0 or the last message sent is the note-off of a re-touch
\* (the trigger time of the silenced note stays in _on_time), and the update
\* that goes from Sounding to Armed leaves _on_time as it was.
C16_OnTimeZeroInIdle ==
    /\ _state = STATE_IDLE => _on_time = 0
    /\ (_state = STATE_ARMED /\ _on_time # 0) =>
           (usbMIDI # <<>> /\ usbMIDI[Len(usbMIDI)].kind = "off")
    /\ (Updated /\ call.state0 = STATE_SOUNDING /\ _state = STATE_ARMED) =>
           _on_time = call.on_time0

\* The string is Idle again after a note that was triggered at a time
\* other than 0 and ended by the timeout.
C16_Witness ==
    /\ Updated /\ call.state0 = STATE_SOUNDING /\ call.on_time0 # 0
    /\ _state = STATE_IDLE /\ _on_time = 0

\* C17: after any sequence of update, set_midi_note, set_duration and
\* set_touch_threshold calls from construction, _state is STATE_IDLE,
\* STATE_ARMED or STATE_SOUNDING, and no update has taken the default case
\* of the switch.
C17_StateInRange ==
    /\ _state \in States
    /\ Updated => (call.state0 \in States /\ ~call.oops)

\* The string has been through all three states: the update just made
\* ended a note by the timeout, after a threshold was set and while a note
\* and a vibration time other than the initial ones are set.
C17_Witness ==
    /\ Updated /\ ~call.oops
    /\ call.state0 = STATE_SOUNDING /\ _state = STATE_IDLE
    /\ _midi_note # 0
    /\ _duration # DEFAULT_STRING_VIBRATION_DURATION
    /\ _touch_threshold # DEFAULT_TOUCH_THRESHOLD

\* C18: a note-off carries the note number of the note-on sent just
\* before it, whenever set_midi_note is called.
C18_NoteOffMatches ==
    Kinds(usbMIDI) = <<"on", "off">> => usbMIDI[2].note = usbMIDI[1].note

\* The states one row of the switch leads to from st.
Successor(st) ==
    CASE st = STATE_IDLE -> {STATE_IDLE, STATE_ARMED}
      [] st = STATE_ARMED -> {STATE_ARMED, STATE_SOUNDING}
      [] st = STATE_SOUNDING -> {STATE_SOUNDING, STATE_ARMED, STATE_IDLE}
      [] OTHER -> {st}

\* C19: one update makes at most one transition and sends at most one
\* message: never both a note-on and a note-off, and a string Idle before
\* the update is not Sounding after it.
C19_OneStepPerUpdate ==
    Updated =>
        /\ Len(call.sent) <= 1
        /\ _state \in Successor(call.state0)
        /\ call.state0 = STATE_IDLE => _state # STATE_SOUNDING
        /\ (call.sent # <<>>) <=>
               \/ call.state0 = STATE_ARMED /\ _state = STATE_SOUNDING
               \/ call.state0 = STATE_SOUNDING /\ _state # STATE_SOUNDING

\* Touch and release are seen by two updates: the string was touched at
\* the update before the last, and the last one, which found it released,
\* sent the note-on.
C19_Witness ==
    /\ Updated /\ call.touched0 /\ ~call.touched
    /\ call.state0 = STATE_ARMED /\ _state = STATE_SOUNDING
    /\ call.sent = <<"on">>
    /\ Len(usbMIDI) = 1

\* C20: a call of TouchPin::update() takes a sample, a sample having been
\* taken before, only if more than _sample_period milliseconds have passed
\* since that sample: millis() - _last_sample_time, in unsigned long
\* arithmetic, is greater than _sample_period.
C20_MinSpacing ==
    [][(call'.op = "sense" /\ call'.sampled /\ readings # <<>>)
       => (clock - _last_sample_time) % ULONG_MODULUS > _sample_period]_vars

====
